---- MODULE Spec2Model ----
(***************************************************************************)
(* A model of common.c of shairport-sync: the small 64-bit pseudo-random   *)
(* generator (ranval / raninit / r64i), its mutex r64_mutex, and           *)
(* generate_zero_frames, which packs (optionally dithered) digital silence *)
(* in any of the sample formats.                                           *)
(*                                                                         *)
(* A 64-bit machine word is a tuple of four 16-bit limbs, least            *)
(* significant limb first, so that wrap-around arithmetic, shifts, masks   *)
(* and casts are computed exactly as the C code computes them on uint64_t  *)
(* and int64_t.                                                            *)
(***************************************************************************)
EXTENDS Integers, Sequences, FiniteSets, TLC

(***************************************************************************)
(* uint64_t / int64_t                                                      *)
(***************************************************************************)
LimbBits == 16
LimbCount == 4
WordBits == LimbBits * LimbCount
LimbMod == 2 ^ LimbBits
LimbMax == LimbMod - 1

Zero64 == <<0, 0, 0, 0>>
One64 == <<1, 0, 0, 0>>
Ones64 == <<LimbMax, LimbMax, LimbMax, LimbMax>>

\* a word from its 16 hexadecimal digits, most significant digit first
HexLimb(h, j) == ((h[j] * 16 + h[j + 1]) * 16 + h[j + 2]) * 16 + h[j + 3]
HexWord(h) == <<HexLimb(h, 13), HexLimb(h, 9), HexLimb(h, 5), HexLimb(h, 1)>>

\* bitwise operators on limbs
RECURSIVE AndN(_, _)
AndN(m, n) ==
  IF m = 0 \/ n = 0 THEN 0
  ELSE 2 * AndN(m \div 2, n \div 2) + (IF m % 2 = 1 /\ n % 2 = 1 THEN 1 ELSE 0)

RECURSIVE OrN(_, _)
OrN(m, n) ==
  IF m = 0 THEN n
  ELSE IF n = 0 THEN m
  ELSE 2 * OrN(m \div 2, n \div 2) + (IF m % 2 = 1 \/ n % 2 = 1 THEN 1 ELSE 0)

RECURSIVE XorN(_, _)
XorN(m, n) ==
  IF m = 0 THEN n
  ELSE IF n = 0 THEN m
  ELSE 2 * XorN(m \div 2, n \div 2) + (IF m % 2 # n % 2 THEN 1 ELSE 0)

And64(x, y) == <<AndN(x[1], y[1]), AndN(x[2], y[2]), AndN(x[3], y[3]), AndN(x[4], y[4])>>
Or64(x, y) == <<OrN(x[1], y[1]), OrN(x[2], y[2]), OrN(x[3], y[3]), OrN(x[4], y[4])>>
Xor64(x, y) == <<XorN(x[1], y[1]), XorN(x[2], y[2]), XorN(x[3], y[3]), XorN(x[4], y[4])>>
Not64(x) == <<LimbMax - x[1], LimbMax - x[2], LimbMax - x[3], LimbMax - x[4]>>

\* limb j of x; a limb below the word is 0, a limb above it is `fill`
LimbAt(x, j, fill) == IF j < 1 THEN 0 ELSE IF j > LimbCount THEN fill ELSE x[j]

\* limb i of x << k
ShlLimb(x, k, i) ==
  LET q == k \div LimbBits
      s == k % LimbBits
  IN  (LimbAt(x, i - q, 0) % (2 ^ (LimbBits - s))) * (2 ^ s)
        + (LimbAt(x, i - q - 1, 0) \div (2 ^ (LimbBits - s)))

\* limb i of x >> k, the vacated high bits taken from `fill`
ShrLimb(x, k, i, fill) ==
  LET q == k \div LimbBits
      s == k % LimbBits
  IN  (LimbAt(x, i + q, fill) \div (2 ^ s))
        + (LimbAt(x, i + q + 1, fill) % (2 ^ s)) * (2 ^ (LimbBits - s))

\* x << k and x >> k on uint64_t (zero fill), 0 < k < 64
Shl(x, k) == <<ShlLimb(x, k, 1), ShlLimb(x, k, 2), ShlLimb(x, k, 3), ShlLimb(x, k, 4)>>
Shr(x, k) == <<ShrLimb(x, k, 1, 0), ShrLimb(x, k, 2, 0), ShrLimb(x, k, 3, 0), ShrLimb(x, k, 4, 0)>>

\* the sign of an int64_t, and x >> k on int64_t (the sign bit is copied in)
IsNeg(x) == x[LimbCount] >= LimbMod \div 2
SignFill(x) == IF IsNeg(x) THEN LimbMax ELSE 0
Sar(x, k) ==
  <<ShrLimb(x, k, 1, SignFill(x)), ShrLimb(x, k, 2, SignFill(x)),
    ShrLimb(x, k, 3, SignFill(x)), ShrLimb(x, k, 4, SignFill(x))>>

\* x + y + cin modulo 2^64, limb by limb with carry
AddCarry(x, y, cin) ==
  LET s1 == x[1] + y[1] + cin
      s2 == x[2] + y[2] + (s1 \div LimbMod)
      s3 == x[3] + y[3] + (s2 \div LimbMod)
      s4 == x[4] + y[4] + (s3 \div LimbMod)
  IN  <<s1 % LimbMod, s2 % LimbMod, s3 % LimbMod, s4 % LimbMod>>

\* x + y and x - y modulo 2^64
Add64(x, y) == AddCarry(x, y, 0)
Sub64(x, y) == AddCarry(x, Not64(y), 1)

(***************************************************************************)
(* The generator (http://burtleburtle.net/bob/rand/smallprng.html)         *)
(***************************************************************************)
\* #define rot(x, k) (((x) << (k)) | ((x) >> (64 - (k))))
rot(x, k) == Or64(Shl(x, k), Shr(x, WordBits - k))

\* ranval, one statement after the other; s.x is the context *x and s.e
\* the local e
ranval_e(x) == [x |-> x, e |-> Sub64(x.a, rot(x.b, 7))]
ranval_a(s) == [s EXCEPT !.x.a = Xor64(s.x.b, rot(s.x.c, 13))]
ranval_b(s) == [s EXCEPT !.x.b = Add64(s.x.c, rot(s.x.d, 37))]
ranval_c(s) == [s EXCEPT !.x.c = Add64(s.x.d, s.e)]
ranval_d(s) == [s EXCEPT !.x.d = Add64(s.e, s.x.a)]
ranval_return(s) == [x |-> s.x, ret |-> s.x.d]

\* ranval with x->d assigned before x->a, so that d gets the old a
ranval_d_before_a(x) ==
  ranval_return(ranval_a(ranval_d(ranval_c(ranval_b(ranval_e(x))))))

\* uint64_t ranval(ranctx *x): the new context and the value returned
ranval(x) == ranval_return(ranval_d(ranval_c(ranval_b(ranval_a(ranval_e(x))))))

\* raninit that leaves x->a as it is
raninit_assign_keep_a(x, seed) == [x EXCEPT !.b = seed, !.c = seed, !.d = seed]

\* raninit before its loop: x->a = 0xf1ea5eed, x->b = x->c = x->d = seed
raninit_assign(x, seed) ==
  [x EXCEPT !.a = HexWord(<<0,0,0,0,0,0,0,0,15,1,14,10,5,14,14,13>>),
            !.b = seed, !.c = seed, !.d = seed]

\* the number of iterations of raninit's loop: for (i = 0; i < 20; ++i)
RanInitRounds == 20

\* uint64_t r64u() and int64_t r64i() applied to the context x: one draw
\* each; `drawn` is what ranval returned, `ret` what the function returns
r64_result(v, ret) == [x |-> v.x, ret |-> ret, drawn |-> v.ret]
r64u_of(v) == r64_result(v, v.ret)
\* r64i() without its shift: return (ranval(&rx))
r64i_unshifted(v) == r64_result(v, v.ret)
r64i_of(v) == r64_result(v, Shr(v.ret, 1))
r64u(x) == r64u_of(ranval(x))
r64i(x) == r64i_of(ranval(x))

(***************************************************************************)
(* Sample formats (the names of sps_format_description_string_array)       *)
(***************************************************************************)
SupportedFormats ==
  {"S8", "U8", "S16", "S16_LE", "S16_BE", "S24", "S24_LE", "S24_BE",
   "S24_3LE", "S24_3BE", "S32", "S32_LE", "S32_BE"}
SentinelFormats == {"unknown", "auto", "invalid"}
Formats == SupportedFormats \cup SentinelFormats
\* const char *sps_format_description_string_array[], from index 0
sps_format_description_string_array ==
  <<"unknown", "S8", "U8", "S16", "S16_LE", "S16_BE", "S24", "S24_LE",
    "S24_BE", "S24_3LE", "S24_3BE", "S32", "S32_LE", "S32_BE", "auto", "invalid">>

\* the values of the enumeration sps_format_t that the lookup names
SPS_FORMAT_AUTO == 14
SPS_FORMAT_INVALID == 15

\* array[i] in C: the name at index i and the index used; an index outside
\* the array reads whatever is there
ArrayRead(array, i) ==
  [index |-> i,
   name |-> IF i + 1 \in DOMAIN array THEN array[i + 1] ELSE "(outside the array)"]

\* the lookup with < for <=
sps_format_description_string_below_auto(format_) ==
  IF format_ < SPS_FORMAT_AUTO
    THEN ArrayRead(sps_format_description_string_array, format_)
    ELSE ArrayRead(sps_format_description_string_array, SPS_FORMAT_INVALID)

sps_format_description_string(format_) ==
  IF format_ <= SPS_FORMAT_AUTO
    THEN ArrayRead(sps_format_description_string_array, format_)
    ELSE ArrayRead(sps_format_description_string_array, SPS_FORMAT_INVALID)

\* the formats stored through an int16_t or int32_t pointer, in the byte
\* order of the host
NativeFormats == {"S16", "S24", "S32"}

\* the first switch of generate_zero_frames: the shift that gives the mask
MaskShift(format) ==
  CASE format \in {"S32", "S32_LE", "S32_BE"} -> WordBits - 32
    [] format \in {"S24", "S24_LE", "S24_BE", "S24_3LE", "S24_3BE"} -> WordBits - 24
    [] format \in {"S16", "S16_LE", "S16_BE"} -> WordBits - 16
    [] format \in {"S8", "U8"} -> WordBits - 8

\* dither_mask = (int64_t)1 << (64 - bits); dither_mask -= 1;
DitherMask(format) == Sub64(Shl(One64, MaskShift(format)), One64)

\* (uint8_t)(v >> k) for an int64_t v
ByteOf(v, k) == ShrLimb(v, k, 1, SignFill(v)) % 256

\* the bytes of the low n bytes of v in the order the host stores them
\* (*(int32_t *)op = v, *(int16_t *)op = v)
StoreNative(v, n, big_endian) ==
  LET le == IF n = 4
              THEN <<ByteOf(v, 0), ByteOf(v, 8), ByteOf(v, 16), ByteOf(v, 24)>>
              ELSE <<ByteOf(v, 0), ByteOf(v, 8)>>
  IN  IF big_endian
        THEN (IF n = 4 THEN <<le[4], le[3], le[2], le[1]>> ELSE <<le[2], le[1]>>)
        ELSE le

\* S24_BE with the padding byte stored last, where S24_LE has it
Pack_S24_BE_pad_last(hyper_sample) ==
  <<ByteOf(hyper_sample, WordBits - 24 + 16), ByteOf(hyper_sample, WordBits - 24 + 8),
    ByteOf(hyper_sample, WordBits - 24), 0>>

\* case SPS_FORMAT_S24_BE
Pack_S24_BE(hyper_sample) ==
  <<0, ByteOf(hyper_sample, WordBits - 24 + 16),
    ByteOf(hyper_sample, WordBits - 24 + 8), ByteOf(hyper_sample, WordBits - 24)>>

\* U8 stored as S8 is, without the offset
Pack_U8_no_offset(hyper_sample) == <<ByteOf(hyper_sample, WordBits - 8)>>

\* case SPS_FORMAT_U8: *op = 128 + (uint8_t)(hyper_sample >> (64 - 8))
Pack_U8(hyper_sample) == <<(128 + ByteOf(hyper_sample, WordBits - 8)) % 256>>

\* the second switch of generate_zero_frames: the bytes written for one
\* sample, in the order of their addresses
PackSample(format, hyper_sample, big_endian) ==
  CASE format = "S32" ->
         StoreNative(Sar(hyper_sample, WordBits - 32), 4, big_endian)
    [] format = "S32_LE" ->
         <<ByteOf(hyper_sample, WordBits - 32), ByteOf(hyper_sample, WordBits - 32 + 8),
           ByteOf(hyper_sample, WordBits - 32 + 16), ByteOf(hyper_sample, WordBits - 32 + 24)>>
    [] format = "S32_BE" ->
         <<ByteOf(hyper_sample, WordBits - 32 + 24), ByteOf(hyper_sample, WordBits - 32 + 16),
           ByteOf(hyper_sample, WordBits - 32 + 8), ByteOf(hyper_sample, WordBits - 32)>>
    [] format = "S24_3LE" ->
         <<ByteOf(hyper_sample, WordBits - 24), ByteOf(hyper_sample, WordBits - 24 + 8),
           ByteOf(hyper_sample, WordBits - 24 + 16)>>
    [] format = "S24_3BE" ->
         <<ByteOf(hyper_sample, WordBits - 24 + 16), ByteOf(hyper_sample, WordBits - 24 + 8),
           ByteOf(hyper_sample, WordBits - 24)>>
    [] format = "S24" ->
         StoreNative(Sar(hyper_sample, WordBits - 24), 4, big_endian)
    [] format = "S24_LE" ->
         <<ByteOf(hyper_sample, WordBits - 24), ByteOf(hyper_sample, WordBits - 24 + 8),
           ByteOf(hyper_sample, WordBits - 24 + 16), 0>>
    [] format = "S24_BE" -> Pack_S24_BE(hyper_sample)
    [] format = "S16_LE" ->
         <<ByteOf(hyper_sample, WordBits - 16), ByteOf(hyper_sample, WordBits - 16 + 8)>>
    [] format = "S16_BE" ->
         <<ByteOf(hyper_sample, WordBits - 16 + 8), ByteOf(hyper_sample, WordBits - 16)>>
    [] format = "S16" ->
         StoreNative(Sar(hyper_sample, WordBits - 16), 2, big_endian)
    [] format = "S8" ->
         <<ByteOf(hyper_sample, WordBits - 8)>>
    [] format = "U8" -> Pack_U8(hyper_sample)

\* the sample loop adding tpdf without looking at with_dither
DitherOf_always(d, tpdf, with_dither) ==
  [x |-> d.x, r |-> d.ret, drawn |-> d.drawn, tpdf |-> tpdf,
   hyper_sample |-> Add64(Zero64, tpdf)]

\* the body of the sample loop up to the packing, d being the result of
\* r64i(): r, tpdf and hyper_sample
DitherOf(d, tpdf, with_dither) ==
  [x |-> d.x, r |-> d.ret, drawn |-> d.drawn, tpdf |-> tpdf,
   hyper_sample |-> IF with_dither # 0 THEN Add64(Zero64, tpdf) ELSE Zero64]

\* tpdf with the two draws the other way round
Tpdf_swapped(r, previous_random_number, dither_mask) ==
  Sub64(And64(previous_random_number, dither_mask), And64(r, dither_mask))

\* tpdf with previous_random_number left unmasked
Tpdf_prev_unmasked(r, previous_random_number, dither_mask) ==
  Sub64(And64(r, dither_mask), previous_random_number)

Tpdf(r, previous_random_number, dither_mask) ==
  Sub64(And64(r, dither_mask), And64(previous_random_number, dither_mask))

DitherDraw(d, previous_random_number, dither_mask, with_dither) ==
  DitherOf(d, Tpdf(d.ret, previous_random_number, dither_mask), with_dither)

\* the loop drawing only when dither is wanted
DitherSample_draw_if_dither(x, previous_random_number, dither_mask, with_dither) ==
  IF with_dither # 0
    THEN DitherDraw(r64i(x), previous_random_number, dither_mask, with_dither)
    ELSE [x |-> x, r |-> previous_random_number, drawn |-> Zero64, tpdf |-> Zero64,
          hyper_sample |-> Zero64]

DitherSample(x, previous_random_number, dither_mask, with_dither) ==
  DitherDraw(r64i(x), previous_random_number, dither_mask, with_dither)

(***************************************************************************)
(* The volume profiles: flat_vol2attn, dasl_tapered_vol2attn and vol2attn. *)
(* A double is a fixed-point number, an integer count of 1/DbScale of a    *)
(* hundredth of a decibel; DbScale has the factors 2, 30, 25 and 13 that   *)
(* the divisions of the three functions need, so that for a whole AirPlay  *)
(* volume every division is exact.  max_db and min_db are longs.           *)
(***************************************************************************)
DbScale == 30 * 5 * 13
\* (double)n for a long n
Fix(n) == n * DbScale

\* a / b on longs, which truncates towards zero
CDiv(a, b) == IF a >= 0 THEN a \div b ELSE -((-a) \div b)

\* (vol <= 0.0) && (vol >= -30.0)
VolInRange(vol) == vol <= 0 /\ vol >= -30

\* 30 * vol_pct, where vol_pct = 1 - (vol / -30.0)
VolPct30(vol) == 30 + vol

\* 1000 * log10(vol_pct) / log10(2) for vol_pct = k / 30, to the nearest
\* 1/DbScale
Log2Table ==
  <<-9568437, -7618437, -6477760, -5668437, -5040677, -4527760, -4094095,
    -3718437, -3387083, -3090677, -2822545, -2577760, -2352579, -2144095,
    -1950000, -1768437, -1597884, -1437083, -1284978, -1140677, -1003418,
    -872545, -747491, -627760, -512917, -402579, -296406, -194095, -95374, 0>>
TaperTerm(pct30) == Log2Table[pct30]

\* flat_vol2attn with the range added twice over: min_db left out
flat_in_range_no_min(vol, max_db, min_db) ==
  ((max_db - min_db) * Fix(30 + vol)) \div 30

\* ((max_db - min_db) * (30.0 + vol) / 30) + min_db
flat_in_range(vol, max_db, min_db) ==
  ((max_db - min_db) * Fix(30 + vol)) \div 30 + Fix(min_db)

flat_vol2attn(vol, max_db, min_db) ==
  IF VolInRange(vol) THEN flat_in_range(vol, max_db, min_db) ELSE Fix(min_db)

\* the tapered setting returned without the flat setting as its floor
dasl_select_no_floor(flat_setting, vol_setting, max_db) ==
  IF vol_setting > Fix(max_db) THEN Fix(max_db) ELSE vol_setting

\* the three returns of dasl_tapered_vol2attn after vol_setting is computed
dasl_select(flat_setting, vol_setting, max_db) ==
  IF vol_setting < flat_setting
    THEN flat_setting
    ELSE IF vol_setting > Fix(max_db) THEN Fix(max_db) ELSE vol_setting

\* flat_setting = min_db + (max_db - min_db) * vol_pct
dasl_flat_setting(pct30, max_db, min_db) ==
  Fix(min_db) + ((max_db - min_db) * Fix(pct30)) \div 30

\* vol_setting = max_db + 1000 * log10(vol_pct) / log10(2)
dasl_vol_setting(pct30, max_db) == Fix(max_db) + TaperTerm(pct30)

\* the tapered setting held between min_db and max_db, with no flat setting
dasl_in_range_clamp_min(pct30, max_db, min_db) ==
  IF pct30 <= 0 \/ dasl_vol_setting(pct30, max_db) < Fix(min_db)
    THEN Fix(min_db)
    ELSE IF dasl_vol_setting(pct30, max_db) > Fix(max_db)
           THEN Fix(max_db)
           ELSE dasl_vol_setting(pct30, max_db)

\* the part of dasl_tapered_vol2attn for a volume in range
dasl_in_range(pct30, max_db, min_db) ==
  IF pct30 <= 0
    THEN Fix(min_db)
    ELSE dasl_select(dasl_flat_setting(pct30, max_db, min_db),
                     dasl_vol_setting(pct30, max_db), max_db)

dasl_tapered_vol2attn(vol, max_db, min_db) ==
  IF VolInRange(vol) THEN dasl_in_range(VolPct30(vol), max_db, min_db) ELSE Fix(min_db)

\* first_slope = -range_db / 2; if (-range_db > first_slope) first_slope = range_db
first_slope_of(range_db, half) == IF -range_db > half THEN range_db ELSE half
first_slope(range_db) == first_slope_of(range_db, CDiv(-range_db, 2))

\* the table with its last line beginning at -30, the bottom of the volume
\* range
vol2attn_lines_break_at_bottom(range_db, slope) ==
  <<<<0, Fix(slope)>>,
    <<-5, Fix(slope) - (Fix(range_db) + Fix(slope)) \div 2>>,
    <<-30, Fix(-range_db)>>>>

\* the table with its last line ending where the first one does instead of
\* at the bottom of the mixer's range
vol2attn_lines_short_last(range_db, slope) ==
  <<<<0, Fix(slope)>>,
    <<-5, Fix(slope) - (Fix(range_db) + Fix(slope)) \div 2>>,
    <<-17, Fix(slope)>>>>

\* double lines[order][2]: whole breakpoints and fixed-point end points
vol2attn_lines(range_db, slope) ==
  <<<<0, Fix(slope)>>,
    <<-5, Fix(slope) - (Fix(range_db) + Fix(slope)) \div 2>>,
    <<-17, Fix(-range_db)>>>>

\* the body of the loop with the last line that applies deciding the setting
vol2attn_line_last_wins(vol_setting, vol, line) ==
  IF vol <= line[1] THEN (line[2] * (vol - line[1])) \div (-30 - line[1]) ELSE vol_setting

\* the body of the loop with the breakpoint added to vol instead of
\* subtracted from it
vol2attn_line_plus_break(vol_setting, vol, line) ==
  IF vol <= line[1] /\ (line[2] * (vol + line[1])) \div (-30 - line[1]) < vol_setting
    THEN (line[2] * (vol + line[1])) \div (-30 - line[1])
    ELSE vol_setting

\* tvol = lines[i][1] * (vol - lines[i][0]) / (-30 - lines[i][0])
vol2attn_tvol(vol, line) == (line[2] * (vol - line[1])) \div (-30 - line[1])

\* the body of the loop over the lines, for one line
vol2attn_line(vol_setting, vol, line) ==
  IF vol <= line[1] /\ vol2attn_tvol(vol, line) < vol_setting
    THEN vol2attn_tvol(vol, line)
    ELSE vol_setting

\* the loop over the three lines, from vol_setting = 0
vol2attn_loop(vol, lines) ==
  vol2attn_line(vol2attn_line(vol2attn_line(0, vol, lines[1]), vol, lines[2]),
                vol, lines[3])

\* if ((-30 - lines[i][0]) == 0.0) die(...) for a line that applies
vol2attn_dies(vol, lines) ==
  VolInRange(vol) /\ \E i \in DOMAIN lines : vol <= lines[i][1] /\ -30 - lines[i][1] = 0

vol2attn_in_range(vol, max_db, range_db) ==
  vol2attn_loop(vol, vol2attn_lines(range_db, first_slope(range_db))) + Fix(max_db)

\* vol2attn with vol_setting left at 0 for a volume out of range
vol2attn_no_fallback(vol, max_db, min_db) ==
  IF VolInRange(vol) THEN vol2attn_in_range(vol, max_db, max_db - min_db) ELSE 0

vol2attn(vol, max_db, min_db) ==
  IF VolInRange(vol) THEN vol2attn_in_range(vol, max_db, max_db - min_db) ELSE Fix(min_db)

(***************************************************************************)
(* The program: r64init at start-up, then threads that call                *)
(* generate_zero_frames on the process-wide generator rx                   *)
(***************************************************************************)
MaxFrames == 1

Threads == {1, 2}
NoThread == 0

\* the seeds r64init is given and the random_number_in values callers pass
Seeds == {HexWord(<<0,0,0,0,0,0,0,0,0,0,0,0,0,0,0,1>>),
          HexWord(<<13,14,10,13,11,14,14,15,0,1,2,3,4,5,6,7>>)}
RandomIns == {HexWord(<<8,1,2,3,4,5,6,7,8,9,10,11,12,13,14,15>>),
              HexWord(<<0,15,14,13,12,11,10,9,8,7,6,5,4,3,2,1>>)}

\* an output buffer big enough for the largest call; Unwritten marks a
\* byte the call has not stored to
Unwritten == -1
BufferSize == MaxFrames * 2 * 4
FreshBuffer == [j \in 1 .. BufferSize |-> Unwritten]

VARIABLES
  rx,                   \* static struct ranctx rx
  init_pc,              \* where r64init is: "start", "raninit" or "done"
  init_i,               \* the loop counter i of raninit
  r64_mutex,            \* the thread that holds r64_mutex, or NoThread
  type_of_exit_cleanup, \* int type_of_exit_cleanup
  exit_status,          \* "running", or the status exit() was called with
  format,               \* the sample format the callers pass
  big_endian,           \* the host is big-endian (only asked of native formats)
  frame,                \* per thread: the activation of generate_zero_frames
  outp,                 \* per thread: the buffer outp points to
  drawlog,              \* for every draw of a call so far, the thread that made it
  ran,                  \* a ranctx under raninit and ranval, with its history
  ranlog,               \* per seed: the draws seen after seeding with it
  cont,                 \* generate_zero_frames in one call and in two
  volume,               \* a volume profile, the mixer's range and the calls made
  util                  \* one of the small utilities of common.c at work

zfvars == <<rx, init_pc, init_i, r64_mutex, type_of_exit_cleanup, exit_status,
            format, big_endian, frame, outp, drawlog>>
ranvars == <<ran, ranlog>>
contvars == <<cont>>
volvars == <<volume>>
utilvars == <<util>>
vars == <<zfvars, ranvars, contvars, volvars, utilvars>>

\* what the actions of the program, of the generator on its own and of the
\* one-call-or-two comparison leave alone
zf_others == <<ranvars, contvars, volvars, utilvars>>
ran_others == <<zfvars, contvars, volvars, utilvars>>
cont_others == <<zfvars, ranvars, volvars, utilvars>>
vol_others == <<zfvars, ranvars, contvars, utilvars>>
util_others == <<zfvars, ranvars, contvars, volvars>>

ZeroCtx == [a |-> Zero64, b |-> Zero64, c |-> Zero64, d |-> Zero64]

IdleFrame ==
  [pc |-> "idle", number_of_frames |-> 0, with_dither |-> 0,
   random_number_in |-> Zero64, dither_mask |-> Zero64,
   previous_random_number |-> Zero64, p |-> 0, sample_number |-> 0,
   r |-> Zero64, drawn |-> Zero64, tpdf |-> Zero64, hyper_sample |-> Zero64,
   ret |-> Zero64,
   \* history: the previous_random_number the last iteration began with, the
   \* generator when the mutex was taken and when it was released, and how
   \* often the call has locked and unlocked r64_mutex
   prev_in |-> Zero64, rx_in |-> ZeroCtx, rx_out |-> ZeroCtx,
   locks |-> 0, unlocks |-> 0]

\* the three parts at rest
RanIdle ==
  [x |-> ZeroCtx, pc |-> "start", i |-> 0, seed |-> Zero64, nseed |-> 0,
   before |-> ZeroCtx, ret |-> Zero64, steps |-> 0, cur |-> <<>>]
RanLogEmpty == [s \in Seeds |-> [outs |-> <<>>, from |-> {}]]
ContIdle == [pc |-> "off"]
VolIdle == [pc |-> "off"]
UtilIdle == [pc |-> "off"]
ZFIdle ==
  /\ rx = ZeroCtx
  /\ init_pc = "start"
  /\ init_i = 0
  /\ r64_mutex = NoThread
  /\ type_of_exit_cleanup = "TOE_normal"
  /\ exit_status = "running"
  /\ big_endian = FALSE
  /\ format = "unknown"
  /\ frame = [t \in Threads |-> IdleFrame]
  /\ outp = [t \in Threads |-> FreshBuffer]
  /\ drawlog = <<>>


Init ==
  /\ rx = ZeroCtx
  /\ init_pc = "start"
  /\ init_i = 0
  /\ r64_mutex = NoThread
  /\ type_of_exit_cleanup = "TOE_normal"
  /\ exit_status = "running"
  /\ format \in Formats
  /\ big_endian \in (IF format \in NativeFormats THEN BOOLEAN ELSE {FALSE})
  /\ frame = [t \in Threads |-> IdleFrame]
  /\ outp = [t \in Threads |-> FreshBuffer]
  /\ drawlog = <<>>
  /\ ran = RanIdle
  /\ ranlog = RanLogEmpty
  /\ cont = ContIdle
  /\ volume = VolIdle
  /\ util = UtilIdle

\* r64init(seed), called once when the process starts: raninit up to its loop
R64Init(seed) ==
  /\ init_pc = "start"
  /\ rx' = raninit_assign(rx, seed)
  /\ init_pc' = "raninit"
  /\ init_i' = 0
  /\ UNCHANGED <<r64_mutex, type_of_exit_cleanup, exit_status, format, big_endian,
                 frame, outp, drawlog>>
  /\ UNCHANGED zf_others

\* one iteration of raninit's loop: (void)ranval(x)
RanInitStep ==
  /\ init_pc = "raninit"
  /\ init_i < RanInitRounds
  /\ rx' = ranval(rx).x
  /\ init_i' = init_i + 1
  /\ UNCHANGED <<init_pc, r64_mutex, type_of_exit_cleanup, exit_status, format,
                 big_endian, frame, outp, drawlog>>
  /\ UNCHANGED zf_others

\* raninit's loop ends and r64init returns
RanInitDone ==
  /\ init_pc = "raninit"
  /\ ~(init_i < RanInitRounds)
  /\ init_pc' = "done"
  /\ UNCHANGED <<rx, init_i, r64_mutex, type_of_exit_cleanup, exit_status, format,
                 big_endian, frame, outp, drawlog>>
  /\ UNCHANGED zf_others

\* the activation record at r64_lock, after the first switch has set
\* dither_mask
EnteredFrame(n, dither, rin) ==
  [IdleFrame EXCEPT !.pc = "lock", !.number_of_frames = n, !.with_dither = dither,
                    !.random_number_in = rin,
                    !.dither_mask = DitherMask(format),
                    !.previous_random_number = rin]

\* the activation record of a call the first switch has ended with die(...)
DeadFrame(n, dither, rin) ==
  [IdleFrame EXCEPT !.pc = "dead", !.number_of_frames = n, !.with_dither = dither,
                    !.random_number_in = rin]

\* generate_zero_frames with a first switch that has no fatal cases: a
\* sentinel format leaves dither_mask at 0 - 1 and goes on to r64_lock
ZF_Enter_no_die(t, n, dither, rin) ==
  /\ exit_status = "running" /\ init_pc = "done"
  /\ frame[t].pc = "idle"
  /\ outp' = [outp EXCEPT ![t] = FreshBuffer]
  /\ frame' = [frame EXCEPT ![t] =
       [IdleFrame EXCEPT !.pc = "lock", !.number_of_frames = n,
                         !.with_dither = dither, !.random_number_in = rin,
                         !.dither_mask = IF format \in SentinelFormats
                                           THEN Ones64 ELSE DitherMask(format),
                         !.previous_random_number = rin]]
  /\ UNCHANGED <<rx, init_pc, init_i, r64_mutex, type_of_exit_cleanup,
                 exit_status, format, big_endian, drawlog>>
  /\ UNCHANGED zf_others

\* thread t calls generate_zero_frames(outp, n, format, dither, rin) and runs
\* it up to r64_lock: the first switch sets dither_mask or dies
\* (_die: type_of_exit_cleanup = TOE_emergency; exit(EXIT_FAILURE))
ZF_Enter(t, n, dither, rin) ==
  /\ exit_status = "running" /\ init_pc = "done"
  /\ frame[t].pc = "idle"
  /\ outp' = [outp EXCEPT ![t] = FreshBuffer]
  /\ IF format \in SentinelFormats
       THEN /\ frame' = [frame EXCEPT ![t] = DeadFrame(n, dither, rin)]
            /\ type_of_exit_cleanup' = "TOE_emergency"
            /\ exit_status' = "EXIT_FAILURE"
       ELSE /\ frame' = [frame EXCEPT ![t] = EnteredFrame(n, dither, rin)]
            /\ UNCHANGED <<type_of_exit_cleanup, exit_status>>
  /\ UNCHANGED <<rx, init_pc, init_i, r64_mutex, format, big_endian, drawlog>>
  /\ UNCHANGED zf_others

\* r64_lock that does not wait for the mutex to be free
ZF_Lock_no_wait(t) ==
  /\ exit_status = "running"
  /\ frame[t].pc = "lock"
  /\ r64_mutex' = t
  /\ frame' = [frame EXCEPT ![t].pc = "loop", ![t].locks = @ + 1, ![t].rx_in = rx]
  /\ UNCHANGED <<rx, init_pc, init_i, type_of_exit_cleanup, exit_status, format,
                 big_endian, outp, drawlog>>
  /\ UNCHANGED zf_others

\* r64_lock: pthread_mutex_lock(&r64_mutex) returns when t has the mutex
ZF_Lock(t) ==
  /\ exit_status = "running"
  /\ frame[t].pc = "lock"
  /\ r64_mutex = NoThread
  /\ r64_mutex' = t
  /\ frame' = [frame EXCEPT ![t].pc = "loop", ![t].locks = @ + 1, ![t].rx_in = rx]
  /\ UNCHANGED <<rx, init_pc, init_i, type_of_exit_cleanup, exit_status, format,
                 big_endian, outp, drawlog>>
  /\ UNCHANGED zf_others

\* the buffer with the bytes bs stored from offset p on
StoreAt(buf, p, bs) ==
  [j \in 1 .. Len(buf) |->
     IF j > p /\ j <= p + Len(bs) THEN bs[j - p] ELSE buf[j]]

\* the loop advancing p by 4 bytes whatever the sample length
SampleFrame_p_by_four(f, s, len) ==
  [f EXCEPT !.r = s.r, !.drawn = s.drawn, !.tpdf = s.tpdf,
            !.prev_in = f.previous_random_number,
            !.hyper_sample = s.hyper_sample,
            !.p = f.p + 4,
            !.previous_random_number = s.r,
            !.sample_number = f.sample_number + 1]

\* the activation record f after one iteration of the sample loop that drew
\* s and stored len bytes
SampleFrame(f, s, len) ==
  [f EXCEPT !.r = s.r, !.drawn = s.drawn, !.tpdf = s.tpdf,
            !.prev_in = f.previous_random_number,
            !.hyper_sample = s.hyper_sample,
            !.p = f.p + len,
            !.previous_random_number = s.r,
            !.sample_number = f.sample_number + 1]

\* the effect of one iteration of the sample loop of thread t, given the
\* draw s and the bytes bs packed for it
ZF_Store(t, s, bs) ==
  /\ rx' = s.x
  /\ outp' = [outp EXCEPT ![t] = StoreAt(@, frame[t].p, bs)]
  /\ frame' = [frame EXCEPT ![t] = SampleFrame(@, s, Len(bs))]
  /\ drawlog' = Append(drawlog, t)

\* the default branch of the second switch: die(...) after the draw
ZF_Die(t, s) ==
  /\ rx' = s.x
  /\ drawlog' = Append(drawlog, t)
  /\ frame' = [frame EXCEPT ![t].pc = "dead"]
  /\ type_of_exit_cleanup' = "TOE_emergency"
  /\ exit_status' = "EXIT_FAILURE"
  /\ UNCHANGED outp

\* the second switch, on the draw s of this iteration
ZF_Pack(t, s) ==
  IF format \in SupportedFormats
    THEN /\ ZF_Store(t, s, PackSample(format, s.hyper_sample, big_endian))
         /\ UNCHANGED <<type_of_exit_cleanup, exit_status>>
    ELSE ZF_Die(t, s)

\* the sample loop as a do-while loop: the body runs once more than the
\* condition allows
ZF_Sample_do_while(t) ==
  /\ exit_status = "running"
  /\ frame[t].pc = "loop"
  /\ frame[t].sample_number <= frame[t].number_of_frames * 2
  /\ ZF_Pack(t, DitherSample(rx, frame[t].previous_random_number,
                             frame[t].dither_mask, frame[t].with_dither))
  /\ UNCHANGED <<init_pc, init_i, r64_mutex, format, big_endian>>
  /\ UNCHANGED zf_others

\* one iteration of the sample loop
ZF_Sample(t) ==
  /\ exit_status = "running"
  /\ frame[t].pc = "loop"
  /\ frame[t].sample_number < frame[t].number_of_frames * 2
  /\ ZF_Pack(t, DitherSample(rx, frame[t].previous_random_number,
                             frame[t].dither_mask, frame[t].with_dither))
  /\ UNCHANGED <<init_pc, init_i, r64_mutex, format, big_endian>>
  /\ UNCHANGED zf_others

\* the return without r64_unlock
ZF_Exit_no_unlock(t) ==
  /\ exit_status = "running"
  /\ frame[t].pc = "loop"
  /\ ~(frame[t].sample_number < frame[t].number_of_frames * 2)
  /\ frame' = [frame EXCEPT ![t].pc = "returned",
                            ![t].ret = frame[t].previous_random_number,
                            ![t].rx_out = rx]
  /\ UNCHANGED <<rx, init_pc, init_i, r64_mutex, type_of_exit_cleanup,
                 exit_status, format, big_endian, outp, drawlog>>
  /\ UNCHANGED zf_others

\* the loop ends: r64_unlock; return previous_random_number
ZF_Exit(t) ==
  /\ exit_status = "running"
  /\ frame[t].pc = "loop"
  /\ ~(frame[t].sample_number < frame[t].number_of_frames * 2)
  /\ r64_mutex' = NoThread
  /\ frame' = [frame EXCEPT ![t].pc = "returned", ![t].unlocks = @ + 1,
                            ![t].ret = frame[t].previous_random_number,
                            ![t].rx_out = rx]
  /\ UNCHANGED <<rx, init_pc, init_i, type_of_exit_cleanup, exit_status, format,
                 big_endian, outp, drawlog>>
  /\ UNCHANGED zf_others

Next ==
  \/ \E seed \in Seeds : R64Init(seed)
  \/ RanInitStep
  \/ RanInitDone
  \/ \E t \in Threads, n \in 0 .. MaxFrames, dither \in {0, 1}, rin \in RandomIns :
       ZF_Enter(t, n, dither, rin)
  \/ \E t \in Threads : ZF_Lock(t)
  \/ \E t \in Threads : ZF_Sample(t)
  \/ \E t \in Threads : ZF_Exit(t)

Spec == Init /\ [][Next]_vars

(***************************************************************************)
(* Properties of generate_zero_frames and the lock                         *)
(***************************************************************************)
\* how many draws of the log were made by thread t
DrawsOf(t) == Cardinality({i \in DOMAIN drawlog : drawlog[i] = t})

\* the bytes of the buffer of t that the call has stored to
WrittenAt(t) == {j \in DOMAIN outp[t] : outp[t][j] # Unwritten}

\* signed comparison of two int64_t
RECURSIVE ULessFrom(_, _, _)
ULessFrom(x, y, i) ==
  IF i = 0 THEN FALSE
  ELSE IF x[i] # y[i] THEN x[i] < y[i]
  ELSE ULessFrom(x, y, i - 1)
SLess(x, y) ==
  IF IsNeg(x) # IsNeg(y) THEN IsNeg(x) ELSE ULessFrom(x, y, LimbCount)
SLeq(x, y) == x = y \/ SLess(x, y)

\* C1: a call with a supported format takes r64_mutex exactly once, before
\* its first draw, holds it during all its frame_count x 2 draws and
\* releases it exactly once before it returns, also when frame_count = 0:
\* waiting at the lock it has not locked and not drawn, in the loop it has
\* locked once, not unlocked and owns the mutex, and returned it has locked
\* once, unlocked once, made all its draws and no longer owns the mutex.
C1_LockOncePerCall ==
  \A t \in Threads :
    /\ frame[t].pc = "lock" =>
         /\ frame[t].locks = 0 /\ frame[t].unlocks = 0
         /\ r64_mutex # t /\ DrawsOf(t) = 0
    /\ frame[t].pc = "loop" =>
         /\ frame[t].locks = 1 /\ frame[t].unlocks = 0
         /\ r64_mutex = t
         /\ DrawsOf(t) = frame[t].sample_number
    /\ frame[t].pc = "returned" =>
         /\ frame[t].locks = 1 /\ frame[t].unlocks = 1
         /\ r64_mutex # t
         /\ DrawsOf(t) = frame[t].number_of_frames * 2

\* both threads have returned, one from a call for no frames and one from a
\* call for the largest number of frames
C1_Witness ==
  \E t, u \in Threads :
    /\ frame[t].pc = "returned" /\ frame[t].number_of_frames = 0
    /\ frame[t].locks = 1 /\ frame[t].unlocks = 1
    /\ frame[u].pc = "returned" /\ frame[u].number_of_frames = MaxFrames
    /\ frame[u].locks = 1 /\ DrawsOf(u) = MaxFrames * 2

\* the context after m draws from x
RECURSIVE AfterDraws(_, _)
AfterDraws(x, m) == IF m = 0 THEN x ELSE AfterDraws(ranval(x).x, m - 1)

\* C2: the draws of concurrent calls do not interleave: in the order in
\* which the generator was drawn from, the draws of one call are
\* consecutive, and what a call in its loop has drawn are the outputs of the
\* generator it found when it took the mutex, one after the other, the last
\* of them (shifted as r64i shifts it) being its previous_random_number.
C2_DrawsNotInterleaved ==
  /\ \A i, k \in DOMAIN drawlog :
       (i < k /\ drawlog[i] = drawlog[k]) =>
         \A j \in i .. k : drawlog[j] = drawlog[i]
  /\ \A t \in Threads :
       (frame[t].pc = "loop" /\ frame[t].sample_number > 0) =>
         /\ rx = AfterDraws(frame[t].rx_in, frame[t].sample_number)
         /\ frame[t].previous_random_number = Shr(rx.d, 1)

\* one thread is in the middle of its loop while the other one, which has
\* frames to generate too, waits for the mutex
C2_Witness ==
  \E t, u \in Threads :
    /\ frame[t].pc = "loop" /\ frame[t].sample_number = 1
    /\ frame[u].pc = "lock" /\ frame[u].number_of_frames > 0

\* C3 as stated: without dither every byte generated is zero, in every
\* supported format.
C3_SilenceAllZero ==
  \A t \in Threads :
    frame[t].with_dither = 0 => \A j \in WrittenAt(t) : outp[t][j] = 0

\* C3 amended: without dither every byte generated is zero in every
\* supported format but U8, where every byte is 128.
C3_SilenceBytes ==
  \A t \in Threads :
    frame[t].with_dither = 0 =>
      \A j \in WrittenAt(t) : outp[t][j] = (IF format = "U8" THEN 128 ELSE 0)

\* a call without dither has returned after generating U8 frames, all of
\* them bytes of 128
C3_Witness ==
  \E t \in Threads :
    /\ frame[t].pc = "returned" /\ frame[t].with_dither = 0
    /\ frame[t].number_of_frames > 0
    /\ format = "U8"
    /\ WrittenAt(t) = 1 .. 2 * frame[t].number_of_frames
    /\ \A j \in WrittenAt(t) : outp[t][j] = 128

\* C4: a call with a sentinel format ends the process (emergency cleanup,
\* exit with failure) without having taken the mutex, drawn or stored to the
\* buffer, whatever frame_count is, and never gets further.
C4_SentinelIsFatal ==
  format \in SentinelFormats =>
    /\ r64_mutex = NoThread
    /\ drawlog = <<>>
    /\ \A t \in Threads :
         /\ frame[t].pc \in {"idle", "dead"}
         /\ frame[t].locks = 0
         /\ WrittenAt(t) = {}
         /\ frame[t].pc = "dead" =>
              /\ exit_status = "EXIT_FAILURE"
              /\ type_of_exit_cleanup = "TOE_emergency"

\* a call for no frames with a sentinel format has ended the process
C4_Witness ==
  \E t \in Threads :
    /\ format \in SentinelFormats
    /\ frame[t].pc = "dead" /\ frame[t].number_of_frames = 0
    /\ exit_status = "EXIT_FAILURE"

\* C6: a call for no frames with a supported format stores no byte, draws
\* nothing (it leaves the generator as it found it) and returns the
\* previous_random it was given.
C6_ZeroFrames ==
  \A t \in Threads :
    (frame[t].pc = "returned" /\ frame[t].number_of_frames = 0) =>
      /\ WrittenAt(t) = {}
      /\ DrawsOf(t) = 0
      /\ frame[t].rx_out = frame[t].rx_in
      /\ frame[t].ret = frame[t].random_number_in

\* a call for no frames has returned after the other thread has drawn
C6_Witness ==
  \E t, u \in Threads :
    /\ frame[t].pc = "returned" /\ frame[t].number_of_frames = 0
    /\ frame[t].ret = frame[t].random_number_in
    /\ frame[t].rx_in # frame[u].rx_in
    /\ DrawsOf(u) > 0

\* what C9 and its amendment share: one draw per sample, tpdf computed from
\* r and the previous_random_number the iteration began with, and r carried
\* to the next sample
C9_PerSample(t) ==
  /\ DrawsOf(t) = frame[t].sample_number
  /\ frame[t].tpdf = Sub64(And64(frame[t].r, frame[t].dither_mask),
                           And64(frame[t].prev_in, frame[t].dither_mask))
  /\ frame[t].previous_random_number = frame[t].r

\* C9 as stated: every sample makes one draw, r is the 64-bit value the
\* draw returned, tpdf = (r & mask) - (previous_random & mask), and r is the
\* next previous_random.
C9_DrawIsR ==
  \A t \in Threads :
    (frame[t].pc \in {"loop", "returned"} /\ frame[t].sample_number > 0) =>
      /\ C9_PerSample(t)
      /\ frame[t].r = frame[t].drawn

\* C9 amended: every sample makes one draw, r is the value the draw returned
\* shifted right by one bit (so r is never negative),
\* tpdf = (r & mask) - (previous_random & mask), and r is the next
\* previous_random.
C9_DrawShiftedIsR ==
  \A t \in Threads :
    (frame[t].pc \in {"loop", "returned"} /\ frame[t].sample_number > 0) =>
      /\ C9_PerSample(t)
      /\ frame[t].r = Shr(frame[t].drawn, 1)
      /\ ~IsNeg(frame[t].r)

\* a call is in its second sample and its last draw returned a value with
\* the top bit set
C9_Witness ==
  \E t \in Threads :
    /\ frame[t].pc = "loop" /\ frame[t].sample_number = 2
    /\ IsNeg(frame[t].drawn)
    /\ frame[t].r = Shr(frame[t].drawn, 1)

\* the mask (1 << (64 - bit_width)) - 1 of a format, written out
MaskOfWidth(format_) ==
  CASE format_ \in {"S8", "U8"} -> <<LimbMax, LimbMax, LimbMax, 255>>
    [] format_ \in {"S16", "S16_LE", "S16_BE"} -> <<LimbMax, LimbMax, LimbMax, 0>>
    [] format_ \in {"S24", "S24_LE", "S24_BE", "S24_3LE", "S24_3BE"} ->
         <<LimbMax, LimbMax, 255, 0>>
    [] format_ \in {"S32", "S32_LE", "S32_BE"} -> <<LimbMax, LimbMax, 0, 0>>

\* C10: with dither, the mask is (1 << (64 - bit_width)) - 1, every
\* hyper_sample lies between -mask and mask, whatever r and previous_random
\* are, and the sample it is shifted down to is -1, 0 or 1.
C10_DitherBounded ==
  \A t \in Threads :
    (frame[t].pc \in {"loop", "returned"} /\ frame[t].sample_number > 0
       /\ frame[t].with_dither # 0) =>
      /\ frame[t].dither_mask = MaskOfWidth(format)
      /\ SLeq(Sub64(Zero64, MaskOfWidth(format)), frame[t].hyper_sample)
      /\ SLeq(frame[t].hyper_sample, MaskOfWidth(format))
      /\ Sar(frame[t].hyper_sample, MaskShift(format)) \in {Ones64, Zero64, One64}

\* a dithered sample that began with a negative previous_random and came
\* out negative
C10_Witness ==
  \E t \in Threads :
    /\ frame[t].sample_number = 1 /\ frame[t].with_dither # 0
    /\ IsNeg(frame[t].prev_in)
    /\ IsNeg(frame[t].hyper_sample)
    /\ Sar(frame[t].hyper_sample, MaskShift(format)) = Ones64

\* the bytes of a sample per format, as the formats are named
SampleBytes(format_) ==
  CASE format_ \in {"S8", "U8"} -> 1
    [] format_ \in {"S16", "S16_LE", "S16_BE"} -> 2
    [] format_ \in {"S24_3LE", "S24_3BE"} -> 3
    [] format_ \in {"S24", "S24_LE", "S24_BE", "S32", "S32_LE", "S32_BE"} -> 4

\* the samples thread t has stored so far, and byte i of the k-th of them
StoredSamples(t) == 1 .. frame[t].sample_number
SampleByte(t, k, i) == outp[t][(k - 1) * SampleBytes(format) + i]

\* where in its 4-byte container a 24-bit sample has the byte that is not
\* one of its three bytes: the most significant byte of the container
PaddingIndex ==
  CASE format = "S24_LE" -> 4
    [] format = "S24_BE" -> 1
    [] format = "S24" -> IF big_endian THEN 1 ELSE 4

\* C12: in the 24-bit formats with a 4-byte container (S24, S24_LE, S24_BE)
\* the byte of every stored sample that is not one of its three sample
\* bytes is zero, with and without dither.
C12_PaddingZero ==
  \A t \in Threads :
    (format \in {"S24", "S24_LE", "S24_BE"} /\ frame[t].pc \in {"loop", "returned"}) =>
      \A k \in StoredSamples(t) : SampleByte(t, k, PaddingIndex) = 0

\* a 64-bit word that holds a small number, as that number
SmallInt(w) == IF IsNeg(w) THEN w[1] - LimbMod ELSE w[1]
\* the signed sample of the last iteration of thread t, and the byte it stored
LastSample(t) == SmallInt(Sar(frame[t].hyper_sample, MaskShift(format)))
LastByte(t) == outp[t][frame[t].p]

\* C13: every U8 byte is the signed 8-bit sample plus 128 modulo 256, so
\* that silence without dither is 128 and a dithered sample of -1 is 127;
\* an S8 byte is the signed sample itself, with no offset.
C13_UnsignedOffset ==
  \A t \in Threads :
    (frame[t].pc \in {"loop", "returned"} /\ frame[t].sample_number > 0) =>
      /\ format = "U8" =>
           /\ LastByte(t) = (LastSample(t) + 128) % 256
           /\ frame[t].with_dither = 0 => LastByte(t) = 128
           /\ LastSample(t) = -1 => LastByte(t) = 127
      /\ format = "S8" => LastByte(t) = LastSample(t) % 256

\* a dithered U8 sample of -1 stored as 127
C13_Witness ==
  \E t \in Threads :
    /\ format = "U8" /\ frame[t].with_dither # 0 /\ frame[t].sample_number > 0
    /\ frame[t].pc \in {"loop", "returned"}
    /\ LastSample(t) = -1 /\ LastByte(t) = 127

\* C14: a call with a supported format stores number_of_frames * 2 samples
\* of the size of the format one after the other from the start of the
\* buffer, and no byte at or after number_of_frames * 2 * size.
C14_ExactExtent ==
  \A t \in Threads :
    (format \in SupportedFormats /\ frame[t].pc \in {"loop", "returned"}) =>
      /\ frame[t].sample_number <= frame[t].number_of_frames * 2
      /\ frame[t].p = frame[t].sample_number * SampleBytes(format)
      /\ WrittenAt(t) = 1 .. frame[t].sample_number * SampleBytes(format)
      /\ frame[t].pc = "returned" =>
           WrittenAt(t) = 1 .. frame[t].number_of_frames * 2 * SampleBytes(format)

\* a call for S24_3LE frames has returned with 3 bytes a sample stored and
\* the rest of the buffer untouched
C14_Witness ==
  \E t \in Threads :
    /\ format = "S24_3LE" /\ frame[t].pc = "returned"
    /\ frame[t].number_of_frames = MaxFrames
    /\ WrittenAt(t) = 1 .. MaxFrames * 2 * 3
    /\ outp[t][MaxFrames * 2 * 3 + 1] = Unwritten

\* C28: with dither the sample packed is never positive: r is not negative
\* (the draw shifted right by one), and the sample is 0 when
\* (r & mask) >= (previous_random & mask) and -1 otherwise, stored as 128 and
\* 127 in U8.
C28_DitherNeverPositive ==
  \A t \in Threads :
    (frame[t].pc \in {"loop", "returned"} /\ frame[t].sample_number > 0
       /\ frame[t].with_dither # 0) =>
      /\ ~IsNeg(frame[t].r)
      /\ LastSample(t) =
           (IF SLeq(And64(frame[t].prev_in, MaskOfWidth(format)),
                    And64(frame[t].r, MaskOfWidth(format)))
              THEN 0 ELSE -1)
      /\ format = "U8" => LastByte(t) = (IF LastSample(t) = 0 THEN 128 ELSE 127)

\* a dithered sample whose tpdf is positive has been packed as 0
C28_Witness ==
  \E t \in Threads :
    /\ frame[t].pc \in {"loop", "returned"} /\ frame[t].sample_number > 0
    /\ frame[t].with_dither # 0
    /\ SLess(Zero64, frame[t].tpdf)
    /\ LastSample(t) = 0
    /\ \A j \in WrittenAt(t) : outp[t][j] \in {0, 128}

(***************************************************************************)
(* The generator on its own: a ranctx with any contents, seeded by         *)
(* raninit any number of times and drawn from by ranval                    *)
(***************************************************************************)
MaxDraws == 2
MaxSeedings == 2

\* contexts a ranctx may hold before it is seeded: the zeroes of static
\* storage and two with draws behind them
StartCtxs ==
  {ZeroCtx,
   [a |-> <<31107, 17062, 38481, 42681>>, b |-> <<45802, 88, 46909, 14081>>,
    c |-> <<46861, 40855, 64678, 45141>>, d |-> <<46776, 27206, 7790, 45765>>],
   [a |-> <<1, 0, 0, 32768>>, b |-> <<65535, 65535, 65535, 65535>>,
    c |-> <<4660, 22136, 39612, 57072>>, d |-> <<0, 0, 1, 0>>]}

RanInit ==
  /\ ran \in {[RanIdle EXCEPT !.x = x] : x \in StartCtxs}
  /\ ranlog = RanLogEmpty
  /\ ZFIdle
  /\ cont = ContIdle
  /\ volume = VolIdle
  /\ util = UtilIdle

\* ran with one more ranval(&ran.x) behind it, v being its result
RanAfter(v) ==
  [ran EXCEPT !.x = v.x, !.before = ran.x, !.ret = v.ret, !.steps = @ + 1]

\* raninit(&ran.x, seed) up to its loop
Ran_Init(seed) ==
  /\ ran.pc \in {"start", "done"}
  /\ ran.nseed < MaxSeedings
  /\ ran' = [ran EXCEPT !.x = raninit_assign(ran.x, seed), !.pc = "raninit",
                        !.i = 0, !.seed = seed, !.nseed = @ + 1, !.steps = 0,
                        !.cur = <<>>]
  /\ ranlog' = [ranlog EXCEPT ![seed].from = @ \cup {ran.x}]
  /\ UNCHANGED ran_others

\* one iteration of raninit's loop: (void)ranval(x)
Ran_InitStep ==
  /\ ran.pc = "raninit"
  /\ ran.i < RanInitRounds
  /\ ran' = [RanAfter(ranval(ran.x)) EXCEPT !.i = @ + 1]
  /\ UNCHANGED ranlog
  /\ UNCHANGED ran_others

\* raninit's loop ends
Ran_InitDone ==
  /\ ran.pc = "raninit"
  /\ ~(ran.i < RanInitRounds)
  /\ ran' = [ran EXCEPT !.pc = "done"]
  /\ UNCHANGED ranlog
  /\ UNCHANGED ran_others

\* the draws seen after seeding with the seed of r, with those of r added
Logged(r) ==
  IF r.pc = "done" /\ Len(r.cur) > Len(ranlog[r.seed].outs)
    THEN [ranlog EXCEPT ![r.seed].outs = r.cur]
    ELSE ranlog

\* ran after a draw whose result the caller keeps
Drawn(r) == IF r.pc = "done" THEN [r EXCEPT !.cur = Append(@, r.ret)] ELSE r

\* a draw: ranval(&ran.x), seeded or not
Ran_Draw ==
  /\ ran.pc \in {"start", "done"}
  /\ ran.steps < (IF ran.pc = "done" THEN RanInitRounds ELSE 0) + MaxDraws
  /\ ran' = Drawn(RanAfter(ranval(ran.x)))
  /\ ranlog' = Logged(ran')
  /\ UNCHANGED ran_others

RanNext ==
  \/ \E seed \in Seeds : Ran_Init(seed)
  \/ Ran_InitStep
  \/ Ran_InitDone
  \/ Ran_Draw

SpecRan == RanInit /\ [][RanNext]_vars

\* bit i of a word, and the word rotated left by k bits, bit by bit
BitAt(x, i) == (x[(i \div LimbBits) + 1] \div (2 ^ (i % LimbBits))) % 2
RECURSIVE RotlLimb(_, _, _, _)
RotlLimb(x, k, j, i) ==
  IF i = LimbBits THEN 0
  ELSE BitAt(x, (LimbBits * (j - 1) + i - k + WordBits) % WordBits) * (2 ^ i)
         + RotlLimb(x, k, j, i + 1)
Rotl(x, k) ==
  <<RotlLimb(x, k, 1, 0), RotlLimb(x, k, 2, 0), RotlLimb(x, k, 3, 0), RotlLimb(x, k, 4, 0)>>

\* the local e of a draw on the context x
DrawE(x) == Sub64(x.a, Rotl(x.b, 7))

\* C7: a draw on (a,b,c,d) computes, modulo 2^64, e = a - rotl(b,7),
\* a' = b xor rotl(c,13), b' = c + rotl(d,37), c' = d + e, d' = e + a' (with
\* the new a), makes (a',b',c',d') the state and returns d'.
C7_DrawRecurrence ==
  ran.steps > 0 =>
    /\ ran.x.a = Xor64(ran.before.b, Rotl(ran.before.c, 13))
    /\ ran.x.b = Add64(ran.before.c, Rotl(ran.before.d, 37))
    /\ ran.x.c = Add64(ran.before.d, DrawE(ran.before))
    /\ ran.x.d = Add64(DrawE(ran.before), ran.x.a)
    /\ ran.ret = ran.x.d

\* a draw whose subtraction wrapped around and whose new a differs from
\* the old one
C7_Witness ==
  /\ ran.steps > 0
  /\ ran.pc = "done" /\ Len(ran.cur) > 0
  /\ ULessFrom(ran.before.a, Rotl(ran.before.b, 7), LimbCount)
  /\ ran.x.a # ran.before.a
  /\ ran.ret = Add64(DrawE(ran.before), ran.x.a)

\* C8: seeding with s overwrites the four words (a = 0xf1ea5eed,
\* b = c = d = s) and then makes exactly 20 draws that nobody sees, and the
\* draws that follow depend on s alone: they are the draws that followed
\* every other seeding with s, whatever the context held before.
C8_SeedDeterminism ==
  /\ (ran.pc = "raninit" /\ ran.i = 0) =>
       ran.x = [a |-> <<24301, 61930, 0, 0>>, b |-> ran.seed,
                c |-> ran.seed, d |-> ran.seed]
  /\ ran.pc = "raninit" => (ran.steps = ran.i /\ ran.cur = <<>>)
  /\ ran.pc = "done" =>
       /\ ran.steps = 20 + Len(ran.cur)
       /\ Len(ran.cur) <= Len(ranlog[ran.seed].outs)
       /\ \A k \in 1 .. Len(ran.cur) : ran.cur[k] = ranlog[ran.seed].outs[k]

\* a context seeded for the second time with the same seed, after other
\* contents than the first time, has gone through all the draws recorded
\* after the first seeding
C8_Witness ==
  /\ ran.pc = "done" /\ ran.nseed = 2
  /\ Cardinality(ranlog[ran.seed].from) = 2
  /\ Len(ran.cur) = MaxDraws
  /\ ran.cur = ranlog[ran.seed].outs

(***************************************************************************)
(* generate_zero_frames as a function of the generator and its arguments,  *)
(* applied once for n1 + n2 frames and twice, for n1 and then n2 frames    *)
(***************************************************************************)
\* the locals after one more iteration of the sample loop that drew s and
\* stored the bytes bs at p
zf_body(st, s, bs) ==
  [x |-> s.x, previous_random_number |-> s.r,
   sample_number |-> st.sample_number + 1, out |-> st.out \o bs]

zf_pack(st, s, format_, big_endian_) ==
  zf_body(st, s, PackSample(format_, s.hyper_sample, big_endian_))

zf_step(st, format_, with_dither, dither_mask, big_endian_) ==
  zf_pack(st, DitherSample(st.x, st.previous_random_number, dither_mask, with_dither),
          format_, big_endian_)

\* for (sample_number = 0; sample_number < number_of_frames * 2; sample_number++)
RECURSIVE zf_loop(_, _, _, _, _, _)
zf_loop(st, number_of_frames, format_, with_dither, dither_mask, big_endian_) ==
  IF st.sample_number < number_of_frames * 2
    THEN zf_loop(zf_step(st, format_, with_dither, dither_mask, big_endian_),
                 number_of_frames, format_, with_dither, dither_mask, big_endian_)
    ELSE st

\* what a call leaves: the generator, the bytes stored from outp on and the
\* value returned
zf_result(st, ret) == [x |-> st.x, out |-> st.out, ret |-> ret]

\* generate_zero_frames that returns random_number_in
generate_zero_frames_returns_in(x, number_of_frames, format_, with_dither, random_number_in, big_endian_) ==
  zf_result(zf_loop([x |-> x, previous_random_number |-> random_number_in,
                     sample_number |-> 0, out |-> <<>>],
                    number_of_frames, format_, with_dither, DitherMask(format_),
                    big_endian_),
            random_number_in)

\* generate_zero_frames(outp, number_of_frames, format, with_dither,
\* random_number_in) for a supported format, on a host of the given byte
\* order, with the generator x
zf_return(st) == zf_result(st, st.previous_random_number)
generate_zero_frames(x, number_of_frames, format_, with_dither, random_number_in, big_endian_) ==
  zf_return(zf_loop([x |-> x, previous_random_number |-> random_number_in,
                     sample_number |-> 0, out |-> <<>>],
                    number_of_frames, format_, with_dither, DitherMask(format_),
                    big_endian_))

NoResult == [x |-> ZeroCtx, out |-> <<>>, ret |-> Zero64]

ContInit ==
  /\ cont \in [pc : {"run"}, x0 : StartCtxs \ {ZeroCtx}, format : SupportedFormats,
               big_endian : BOOLEAN, with_dither : {0, 1}, rin : RandomIns,
               n1 : 0 .. MaxFrames, n2 : 0 .. MaxFrames,
               done1 : {FALSE}, done2 : {FALSE}, doneW : {FALSE}, doneT : {FALSE},
               doneD : {FALSE},
               first : {NoResult}, second : {NoResult}, whole : {NoResult},
               twin : {NoResult}, other : {NoResult}]
  /\ cont.big_endian => cont.format \in NativeFormats
  /\ ZFIdle
  /\ ran = RanIdle
  /\ ranlog = RanLogEmpty
  /\ volume = VolIdle
  /\ util = UtilIdle

\* the call for n1 frames, from random_number_in
Cont_First ==
  /\ cont.pc = "run" /\ ~cont.done1
  /\ cont' = [cont EXCEPT !.done1 = TRUE,
                !.first = generate_zero_frames(cont.x0, cont.n1, cont.format,
                            cont.with_dither, cont.rin, cont.big_endian)]
  /\ UNCHANGED cont_others

\* the call for n2 frames that follows it, from the value it returned
Cont_Second ==
  /\ cont.pc = "run" /\ cont.done1 /\ ~cont.done2
  /\ cont' = [cont EXCEPT !.done2 = TRUE,
                !.second = generate_zero_frames(cont.first.x, cont.n2, cont.format,
                             cont.with_dither, cont.first.ret, cont.big_endian)]
  /\ UNCHANGED cont_others

\* one call for n1 + n2 frames, from the same generator and random_number_in
Cont_Whole ==
  /\ cont.pc = "run" /\ ~cont.doneW
  /\ cont' = [cont EXCEPT !.doneW = TRUE,
                !.whole = generate_zero_frames(cont.x0, cont.n1 + cont.n2, cont.format,
                            cont.with_dither, cont.rin, cont.big_endian)]
  /\ UNCHANGED cont_others

\* the big-endian variant of a little-endian format
BigEndianOf(format_) ==
  CASE format_ = "S16_LE" -> "S16_BE"
    [] format_ = "S24_3LE" -> "S24_3BE"
    [] format_ = "S24_LE" -> "S24_BE"
    [] format_ = "S32_LE" -> "S32_BE"
LittleEndianFormats == {"S16_LE", "S24_3LE", "S24_LE", "S32_LE"}

\* the call for n1 + n2 frames with the same arguments and generator, but in
\* the big-endian variant of the format
Cont_Twin ==
  /\ cont.pc = "run" /\ ~cont.doneT
  /\ cont.format \in LittleEndianFormats
  /\ cont' = [cont EXCEPT !.doneT = TRUE,
                !.twin = generate_zero_frames(cont.x0, cont.n1 + cont.n2,
                           BigEndianOf(cont.format), cont.with_dither, cont.rin,
                           cont.big_endian)]
  /\ UNCHANGED cont_others

\* the call for n1 + n2 frames with the same arguments and generator, but
\* with the other value of with_dither
Cont_OtherDither ==
  /\ cont.pc = "run" /\ ~cont.doneD
  /\ cont' = [cont EXCEPT !.doneD = TRUE,
                !.other = generate_zero_frames(cont.x0, cont.n1 + cont.n2, cont.format,
                            1 - cont.with_dither, cont.rin, cont.big_endian)]
  /\ UNCHANGED cont_others

ContNext ==
  \/ Cont_First
  \/ Cont_Second
  \/ Cont_Whole
  \/ Cont_Twin
  \/ Cont_OtherDither

SpecCont == ContInit /\ [][ContNext]_vars

\* C5: a call for n1 frames followed, with no draw in between, by a call for
\* n2 frames that is given what the first returned, leaves the same bytes
\* (the two buffers one after the other), the same returned value and the
\* same generator as one call for n1 + n2 frames.
C5_Continuity ==
  (cont.pc = "run" /\ cont.done1 /\ cont.done2 /\ cont.doneW) =>
    /\ cont.first.out \o cont.second.out = cont.whole.out
    /\ cont.second.ret = cont.whole.ret
    /\ cont.second.x = cont.whole.x

\* two dithered calls for frames each, the second of which stored a byte
\* that is not zero, against the one call for all the frames
C5_Witness ==
  /\ cont.pc = "run" /\ cont.done1 /\ cont.done2 /\ cont.doneW
  /\ cont.n1 = MaxFrames /\ cont.n2 > 0 /\ cont.with_dither = 1
  /\ cont.format = "S24_3BE"
  /\ \E j \in DOMAIN cont.second.out : cont.second.out[j] # 0
  /\ Len(cont.whole.out) = (cont.n1 + cont.n2) * 2 * 3
  /\ cont.second.ret = cont.whole.ret /\ cont.second.ret # cont.first.ret

\* byte j of the buffer out with the bytes of every sample of size bytes in
\* the opposite order
SwappedByte(out, size, j) == out[((j - 1) \div size) * size + size - ((j - 1) % size)]
SwapPerSample(out, size) == [j \in 1 .. Len(out) |-> SwappedByte(out, size, j)]

\* C11: from the same generator, previous_random, frame count and dither
\* flag, the buffer of the big-endian variant of a format is the buffer of
\* its little-endian variant with the bytes of every sample reversed, and
\* both calls return the same last random number.
C11_EndianSymmetry ==
  (cont.pc = "run" /\ cont.doneW /\ cont.doneT) =>
    /\ Len(cont.twin.out) = Len(cont.whole.out)
    /\ Len(cont.whole.out) = (cont.n1 + cont.n2) * 2 * SampleBytes(cont.format)
    /\ cont.twin.out = SwapPerSample(cont.whole.out, SampleBytes(cont.format))
    /\ cont.twin.ret = cont.whole.ret
    /\ cont.twin.x = cont.whole.x

\* dithered S24_LE and S24_BE buffers that differ, one the per-sample
\* reversal of the other
C11_Witness ==
  /\ cont.pc = "run" /\ cont.doneW /\ cont.doneT
  /\ cont.format = "S24_LE" /\ cont.with_dither = 1 /\ cont.n1 + cont.n2 > 0
  /\ cont.twin.out # cont.whole.out
  /\ cont.twin.out = SwapPerSample(cont.whole.out, 4)
  /\ cont.twin.ret = cont.whole.ret

\* C27: a call without dither draws number_of_frames * 2 times as a call
\* with dither does, and returns the last value drawn, not the one it was
\* given: the generator and the value returned after the call are the same
\* with and without dither.
C27_DitherFlagLeavesDraws ==
  (cont.pc = "run" /\ cont.doneW /\ cont.doneD) =>
    /\ cont.other.x = cont.whole.x
    /\ cont.other.ret = cont.whole.ret
    /\ cont.whole.x = AfterDraws(cont.x0, (cont.n1 + cont.n2) * 2)
    /\ cont.n1 + cont.n2 > 0 =>
         /\ cont.whole.ret = Shr(cont.whole.x.d, 1)
         /\ cont.whole.ret # cont.rin
         /\ cont.whole.x # cont.x0

\* a call without dither and the same call with dither have left the same
\* generator, not the one they began with, and different bytes
C27_Witness ==
  /\ cont.pc = "run" /\ cont.doneW /\ cont.doneD
  /\ cont.with_dither = 0 /\ cont.n1 + cont.n2 > 0
  /\ cont.whole.x # cont.x0 /\ cont.whole.x = cont.other.x
  /\ cont.whole.ret = cont.other.ret
  /\ cont.whole.out # cont.other.out

(***************************************************************************)
(* The volume profiles as the playback pipeline calls them: one profile    *)
(* and one mixer range (max_db, min_db) from the configuration, and calls  *)
(* with AirPlay volumes in and out of range                                *)
(***************************************************************************)
MaxVolCalls == 3

Profiles == {"flat", "dasl_tapered", "standard"}
\* <<max_db, min_db>> in hundredths of a decibel, min_db <= max_db
VolumeSpecs == {<<0, -6000>>, <<-100, -3101>>, <<-500, -500>>}
\* AirPlay volumes: the mute value, volumes out of range and volumes in range
Vols == {-144, -31, -30, -29, -24, -18, -17, -16, -15, -10, -6, -5, -4, -1, 0, 1}

VolInit ==
  /\ \E profile \in Profiles, db \in VolumeSpecs :
       volume = [pc |-> "run", profile |-> profile, max_db |-> db[1],
                 min_db |-> db[2], calls |-> {}]
  /\ ZFIdle
  /\ ran = RanIdle
  /\ ranlog = RanLogEmpty
  /\ cont = ContIdle
  /\ util = UtilIdle

\* the caller has the value ret for the volume vol
Returned(v, vol, ret) == [v EXCEPT !.calls = @ \cup {[vol |-> vol, ret |-> ret]}]

Call_flat_vol2attn(vol) ==
  /\ volume.pc = "run" /\ volume.profile = "flat"
  /\ Cardinality(volume.calls) < MaxVolCalls
  /\ volume' = Returned(volume, vol, flat_vol2attn(vol, volume.max_db, volume.min_db))
  /\ UNCHANGED vol_others

Call_dasl_tapered_vol2attn(vol) ==
  /\ volume.pc = "run" /\ volume.profile = "dasl_tapered"
  /\ Cardinality(volume.calls) < MaxVolCalls
  /\ volume' = Returned(volume, vol,
                        dasl_tapered_vol2attn(vol, volume.max_db, volume.min_db))
  /\ UNCHANGED vol_others

\* vol2attn, which ends the process in die(...) if a line that applies
\* begins at -30
Call_vol2attn(vol) ==
  /\ volume.pc = "run" /\ volume.profile = "standard"
  /\ Cardinality(volume.calls) < MaxVolCalls
  /\ volume' =
       IF vol2attn_dies(vol, vol2attn_lines(volume.max_db - volume.min_db,
                                            first_slope(volume.max_db - volume.min_db)))
         THEN [volume EXCEPT !.pc = "dead"]
         ELSE Returned(volume, vol, vol2attn(vol, volume.max_db, volume.min_db))
  /\ UNCHANGED vol_others

VolNext ==
  \/ \E vol \in Vols : Call_flat_vol2attn(vol)
  \/ \E vol \in Vols : Call_dasl_tapered_vol2attn(vol)
  \/ \E vol \in Vols : Call_vol2attn(vol)

SpecVol == VolInit /\ [][VolNext]_vars

\* the calls made so far, and those with a volume in [-30, 0]
VolCalls == IF volume.pc = "off" THEN {} ELSE volume.calls
ValidCalls == {c \in VolCalls : c.vol >= -30 /\ c.vol <= 0}
\* a whole number of hundredths of a decibel as a returned value
Db(n) == n * DbScale

\* C15: in each of the three profiles the mute value -144 and every other
\* volume outside [-30, 0] return min_db, and the call returns: the process
\* is not ended.
C15_OutOfRangeIsMinDb ==
  volume.pc # "off" =>
    /\ volume.pc # "dead"
    /\ \A c \in VolCalls :
         (c.vol = -144 \/ c.vol < -30 \/ c.vol > 0) => c.ret = Db(volume.min_db)

\* vol2attn has returned min_db for the mute value, for a volume below the
\* range and for one above it
C15_Witness ==
  /\ volume.pc = "run" /\ volume.profile = "standard"
  /\ volume.min_db < volume.max_db
  /\ {c.vol : c \in VolCalls} = {-144, -31, 1}
  /\ \A c \in VolCalls : c.ret = Db(volume.min_db)
\* C16: for min_db < max_db and vol in [-30, 0] the flat profile returns
\* min_db + (max_db - min_db) * (30 + vol) / 30: max_db at 0, min_db at -30,
\* equal steps in vol give equal steps in the value returned, the value
\* never falls as vol rises, and with min_db = -6000, max_db = 0 the volume
\* -15 gives -3000.
C16_FlatLinear ==
  (volume.pc = "run" /\ volume.profile = "flat" /\ volume.min_db < volume.max_db) =>
    /\ \A c \in ValidCalls :
         /\ 30 * c.ret = 30 * Db(volume.min_db)
                         + Db(volume.max_db - volume.min_db) * (30 + c.vol)
         /\ c.vol = 0 => c.ret = Db(volume.max_db)
         /\ c.vol = -30 => c.ret = Db(volume.min_db)
         /\ (c.vol = -15 /\ volume.min_db = -6000 /\ volume.max_db = 0) =>
              c.ret = Db(-3000)
    /\ \A c1, c2 \in ValidCalls : c1.vol <= c2.vol => c1.ret <= c2.ret
    /\ \A c1, c2, c3, c4 \in ValidCalls :
         c2.vol - c1.vol = c4.vol - c3.vol => c2.ret - c1.ret = c4.ret - c3.ret

\* the flat profile on a mixer from -6000 to 0 has returned -6000, -3000 and
\* 0 for the volumes -30, -15 and 0
C16_Witness ==
  /\ volume.pc = "run" /\ volume.profile = "flat"
  /\ volume.min_db = -6000 /\ volume.max_db = 0
  /\ VolCalls = {[vol |-> -30, ret |-> Db(-6000)], [vol |-> -15, ret |-> Db(-3000)],
                 [vol |-> 0, ret |-> 0]}

\* values the tapered term may take, from far below any range to far above
TaperProbes == {-(10 ^ 9), -1, 0, 1, 10 ^ 9} \cup {Log2Table[k] : k \in DOMAIN Log2Table}

\* C17: for min_db <= max_db and vol in [-30, 0] the dasl_tapered profile
\* returns a value between min_db and max_db that is not below the flat
\* profile's value for the same arguments, whatever the tapered term is;
\* it returns min_db for -30 and max_db for 0.
C17_DaslBounded ==
  (volume.pc = "run" /\ volume.profile = "dasl_tapered") =>
    \A c \in ValidCalls :
      /\ Db(volume.min_db) <= c.ret /\ c.ret <= Db(volume.max_db)
      /\ c.ret >= flat_vol2attn(c.vol, volume.max_db, volume.min_db)
      /\ c.vol = -30 => c.ret = Db(volume.min_db)
      /\ c.vol = 0 => c.ret = Db(volume.max_db)
      /\ c.vol > -30 =>
           \A tapered \in TaperProbes :
             /\ dasl_select(dasl_flat_setting(30 + c.vol, volume.max_db, volume.min_db),
                            Db(volume.max_db) + tapered, volume.max_db)
                  \in Db(volume.min_db) .. Db(volume.max_db)
             /\ dasl_select(dasl_flat_setting(30 + c.vol, volume.max_db, volume.min_db),
                            Db(volume.max_db) + tapered, volume.max_db)
                  >= flat_vol2attn(c.vol, volume.max_db, volume.min_db)

\* on a narrow mixer range the profile has returned the flat value for a
\* low volume, where the tapered value is below min_db, and the tapered
\* value, above the flat one, for a higher volume
C17_Witness ==
  /\ volume.pc = "run" /\ volume.profile = "dasl_tapered"
  /\ volume.min_db < volume.max_db
  /\ \E c \in ValidCalls :
       /\ c.vol > -30
       /\ Db(volume.max_db) + Log2Table[30 + c.vol] < Db(volume.min_db)
       /\ c.ret = flat_vol2attn(c.vol, volume.max_db, volume.min_db)
  /\ \E c \in ValidCalls :
       /\ c.vol > -30 /\ c.vol < 0
       /\ c.ret = Db(volume.max_db) + Log2Table[30 + c.vol]
       /\ c.ret > flat_vol2attn(c.vol, volume.max_db, volume.min_db)

\* C18: for min_db < max_db the dasl_tapered profile rises strictly with vol
\* over [-30, 0]: two different volumes never give the same value, also
\* where the tapered value is below the mixer's range.
C18_DaslNoDeadZone ==
  (volume.pc = "run" /\ volume.profile = "dasl_tapered"
     /\ volume.min_db < volume.max_db) =>
    \A c1, c2 \in ValidCalls : c1.vol < c2.vol => c1.ret < c2.ret

\* the volumes -30 and -29, whose tapered values are both below min_db, and
\* a higher one have been given three different values
C18_Witness ==
  /\ volume.pc = "run" /\ volume.profile = "dasl_tapered"
  /\ volume.min_db < volume.max_db
  /\ {c.vol : c \in VolCalls} = {-30, -29, -24}
  /\ Db(volume.max_db) + Log2Table[30 - 29] < Db(volume.min_db)
  /\ Cardinality({c.ret : c \in VolCalls}) = 3

\* C19: the standard profile never falls as vol rises over [-30, 0], also
\* not where a line begins to apply (0, -5, -17), and returns max_db for 0.
C19_StandardMonotone ==
  (volume.pc = "run" /\ volume.profile = "standard") =>
    /\ \A c1, c2 \in ValidCalls : c1.vol <= c2.vol => c1.ret <= c2.ret
    /\ \A c \in ValidCalls : c.vol = 0 => c.ret = Db(volume.max_db)

\* the values returned on both sides of the breakpoint -17 and at it rise
\* with the volume
C19_Witness ==
  /\ volume.pc = "run" /\ volume.profile = "standard"
  /\ volume.min_db < volume.max_db
  /\ {c.vol : c \in VolCalls} = {-18, -17, -16}
  /\ \A c1, c2 \in VolCalls : c1.vol < c2.vol => c1.ret < c2.ret

\* C20 as stated: the standard profile is convex on [-30, 0]: between two
\* volumes a < c the value for b lies on or below the chord from a to c.
C20_StandardConvex ==
  (volume.pc = "run" /\ volume.profile = "standard") =>
    \A a, b, c \in ValidCalls :
      (a.vol < b.vol /\ b.vol < c.vol) =>
        (b.ret - a.ret) * (c.vol - a.vol) <= (c.ret - a.ret) * (b.vol - a.vol)

\* C20 amended: the standard profile is concave on [-30, 0]: between two
\* volumes a < c the value for b lies on or above the chord from a to c.
C20_StandardConcave ==
  (volume.pc = "run" /\ volume.profile = "standard") =>
    \A a, b, c \in ValidCalls :
      (a.vol < b.vol /\ b.vol < c.vol) =>
        (b.ret - a.ret) * (c.vol - a.vol) >= (c.ret - a.ret) * (b.vol - a.vol)

\* the value for -17 lies strictly above the chord from -30 to 0
C20_Witness ==
  /\ volume.pc = "run" /\ volume.profile = "standard"
  /\ volume.min_db < volume.max_db
  /\ \E a, b, c \in ValidCalls :
       /\ a.vol = -30 /\ b.vol = -17 /\ c.vol = 0
       /\ (b.ret - a.ret) * (c.vol - a.vol) > (c.ret - a.ret) * (b.vol - a.vol)
\* the table of lines of the call in progress
LinesOf(v) == vol2attn_lines(v.max_db - v.min_db, first_slope(v.max_db - v.min_db))

\* C21: for every volume in [-30, 0] and every mixer range the denominator
\* -30 - x_break of each of the three lines (breakpoints 0, -5, -17) is not
\* zero, so vol2attn never calls die.
C21_NeverDies ==
  (volume.pc # "off" /\ volume.profile = "standard") =>
    /\ volume.pc = "run"
    /\ {LinesOf(volume)[i][1] : i \in DOMAIN LinesOf(volume)} = {0, -5, -17}
    /\ \A i \in DOMAIN LinesOf(volume) : -30 - LinesOf(volume)[i][1] # 0
    /\ \A vol \in Vols : ~vol2attn_dies(vol, LinesOf(volume))

\* vol2attn has returned for the volume -30, where all three lines apply
C21_Witness ==
  /\ volume.pc = "run" /\ volume.profile = "standard"
  /\ \E c \in VolCalls : c.vol = -30
  /\ \A i \in DOMAIN LinesOf(volume) : -30 <= LinesOf(volume)[i][1]

\* C29: for min_db <= max_db and vol in [-30, 0] the standard profile
\* returns a value between min_db and max_db, and min_db itself for -30,
\* also when max_db - min_db is odd and -range_db / 2 is truncated.
C29_StandardInRange ==
  (volume.pc = "run" /\ volume.profile = "standard"
     /\ volume.min_db <= volume.max_db) =>
    \A c \in ValidCalls :
      /\ Db(volume.min_db) <= c.ret /\ c.ret <= Db(volume.max_db)
      /\ c.vol = -30 => c.ret = Db(volume.min_db)

\* on a mixer with an odd range vol2attn has returned min_db for -30 and
\* values inside the range for two more volumes
C29_Witness ==
  /\ volume.pc = "run" /\ volume.profile = "standard"
  /\ (volume.max_db - volume.min_db) % 2 = 1
  /\ {c.vol : c \in VolCalls} = {-30, -17, -4}
  /\ \A c \in VolCalls :
       IF c.vol = -30 THEN c.ret = Db(volume.min_db)
                      ELSE Db(volume.min_db) < c.ret /\ c.ret < Db(volume.max_db)
(***************************************************************************)
(* sps_format_description_string as the logging code calls it, with the    *)
(* identifiers of the enumeration and values beyond it                     *)
(***************************************************************************)
MaxLookups == 2

FormatIdentifiers == 0 .. SPS_FORMAT_INVALID + 2

FormatInit ==
  /\ util = [pc |-> "format", looked |-> {}]
  /\ ZFIdle
  /\ ran = RanIdle
  /\ ranlog = RanLogEmpty
  /\ cont = ContIdle
  /\ volume = VolIdle

Format_Lookup(id) ==
  /\ util.pc = "format"
  /\ Cardinality(util.looked) < MaxLookups
  /\ util' = [util EXCEPT !.looked =
                @ \cup {[format |-> id, got |-> sps_format_description_string(id)]}]
  /\ UNCHANGED util_others

FormatNext == \E id \in FormatIdentifiers : Format_Lookup(id)

SpecFormat == FormatInit /\ [][FormatNext]_vars

\* the names in the order of the identifiers, unknown being 0
NamesInOrder ==
  <<"unknown", "S8", "U8", "S16", "S16_LE", "S16_BE", "S24", "S24_LE", "S24_BE",
    "S24_3LE", "S24_3BE", "S32", "S32_LE", "S32_BE", "auto">>
Lookups == IF util.pc = "format" THEN util.looked ELSE {}

\* C22: for every identifier up to auto the lookup returns the table entry
\* at the identifier's index (unknown, S8, ..., S32_BE, auto in this order),
\* every larger identifier gives "invalid", and the index used is always
\* inside the 16-entry table.
C22_NameLookup ==
  \A l \in Lookups :
    /\ l.got.index \in 0 .. 15
    /\ l.format <= Len(NamesInOrder) - 1 =>
         /\ l.got.index = l.format
         /\ l.got.name = NamesInOrder[l.format + 1]
    /\ l.format > Len(NamesInOrder) - 1 => l.got.name = "invalid"

\* auto has been looked up and named auto, and an identifier beyond the
\* enumeration has been named invalid
C22_Witness ==
  /\ [format |-> 14, got |-> [index |-> 14, name |-> "auto"]] \in Lookups
  /\ [format |-> 17, got |-> [index |-> 15, name |-> "invalid"]] \in Lookups
(***************************************************************************)
(* _debug_mutex_lock and _debug_mutex_unlock around a protected section,   *)
(* called by two threads on one mutex                                      *)
(***************************************************************************)
\* the debuglevel and dally_time (in microseconds) the callers pass
DebugLevels == {0, 1, 2}
DallyTimes == {0, 1500}

LockThreadIdle == [pc |-> "idle", time_to_wait |-> 0, r |-> "none"]

LockInit ==
  /\ \E lev \in {0, 1} :
       util = [pc |-> "lock", debuglev |-> lev, mutex |-> NoThread,
               th |-> [t \in Threads |-> LockThreadIdle]]
  /\ ZFIdle
  /\ ran = RanIdle
  /\ ranlog = RanLogEmpty
  /\ cont = ContIdle
  /\ volume = VolIdle

\* _debug_mutex_lock(mutex, dally_time, ..., debuglevel) up to its first
\* blocking or trying call
DML_Call(t, debuglevel, dally_time) ==
  /\ util.pc = "lock" /\ util.th[t].pc = "idle"
  /\ util' = [util EXCEPT
       !.th[t] = IF debuglevel > util.debuglev \/ debuglevel = 0
                    THEN [pc |-> "lock", time_to_wait |-> 0, r |-> "none"]
                    ELSE [pc |-> "try", time_to_wait |-> dally_time, r |-> "none"]]
  /\ UNCHANGED util_others

\* pthread_mutex_lock returns 0 once the thread has the mutex, and
\* _debug_mutex_lock returns it
DML_Lock(t) ==
  /\ util.pc = "lock" /\ util.th[t].pc = "lock"
  /\ util.mutex = NoThread
  /\ util' = [util EXCEPT !.mutex = t, !.th[t].pc = "in", !.th[t].r = "0"]
  /\ UNCHANGED util_others

\* sps_pthread_mutex_timedlock: r = pthread_mutex_trylock(mutex) and the
\* test of the while loop that follows it
DML_Try(t) ==
  /\ util.pc = "lock" /\ util.th[t].pc = "try"
  /\ util' =
       IF util.mutex = NoThread
         THEN [util EXCEPT !.mutex = t, !.th[t].r = "0", !.th[t].pc = "timed"]
         ELSE [util EXCEPT !.th[t].r = "EBUSY",
                           !.th[t].pc = IF util.th[t].time_to_wait > 0
                                          THEN "sleep" ELSE "timed"]
  /\ UNCHANGED util_others

\* the body of the while loop: sleep for st microseconds, at most 1000
DML_Sleep(t) ==
  /\ util.pc = "lock" /\ util.th[t].pc = "sleep"
  /\ util' = [util EXCEPT
       !.th[t].time_to_wait = @ - (IF @ > 1000 THEN 1000 ELSE @),
       !.th[t].pc = "try"]
  /\ UNCHANGED util_others

\* sps_pthread_mutex_timedlock returns r; _debug_mutex_lock waits
\* unconditionally if it is ETIMEDOUT and returns it otherwise
DML_Timed(t) ==
  /\ util.pc = "lock" /\ util.th[t].pc = "timed"
  /\ util' = [util EXCEPT
       !.th[t].pc = IF util.th[t].r = "ETIMEDOUT" THEN "lock" ELSE "in"]
  /\ UNCHANGED util_others

\* the end of the protected section: pthread_mutex_unlock, which is
\* undefined for a mutex the thread does not own (it may fail or unlock it)
DML_Unlock(t) ==
  /\ util.pc = "lock" /\ util.th[t].pc = "in"
  /\ \E m \in (IF util.mutex = t THEN {NoThread} ELSE {NoThread, util.mutex}) :
       util' = [util EXCEPT !.mutex = m, !.th[t] = LockThreadIdle]
  /\ UNCHANGED util_others

LockNext ==
  \/ \E t \in Threads, debuglevel \in DebugLevels, dally_time \in DallyTimes :
       DML_Call(t, debuglevel, dally_time)
  \/ \E t \in Threads : DML_Lock(t)
  \/ \E t \in Threads : DML_Try(t)
  \/ \E t \in Threads : DML_Sleep(t)
  \/ \E t \in Threads : DML_Timed(t)
  \/ \E t \in Threads : DML_Unlock(t)

SpecLock == LockInit /\ [][LockNext]_vars

\* C23: _debug_mutex_lock never returns without the lock: a thread it has
\* returned to owns the mutex, also after a timed attempt that failed, and
\* two threads are never in the protected section together.
C23_ReturnsWithLock ==
  util.pc = "lock" =>
    /\ \A t \in Threads : util.th[t].pc = "in" => util.mutex = t
    /\ \A t1, t2 \in Threads :
         (util.th[t1].pc = "in" /\ util.th[t2].pc = "in") => t1 = t2
(***************************************************************************)
(* resetFreeUDPPort and nextFreeUDPPort                                    *)
(***************************************************************************)
MaxPortCalls == 8

\* <<config.udp_port_base, config.udp_port_range>>: the range is at least 3
\* and udp_port_base + udp_port_range - 1 is at most 65535
PortConfigs == {<<6001, 3>>, <<6001, 6>>, <<65530, 3>>, <<65530, 6>>}

\* the value nextFreeUDPPort leaves in the uint16_t UDPPortIndex and returns
nextFreeUDPPort(UDPPortIndex, udp_port_base, udp_port_range) ==
  IF UDPPortIndex = 0
    THEN udp_port_base % 65536
    ELSE IF UDPPortIndex = udp_port_base + udp_port_range - 1
           THEN (udp_port_base + 3) % 65536
           ELSE (UDPPortIndex + 1) % 65536

\* static uint16_t UDPPortIndex = 0; returned holds the ports handed out
\* since the last resetFreeUDPPort
PortInit ==
  /\ \E c \in PortConfigs :
       util = [pc |-> "ports", udp_port_base |-> c[1], udp_port_range |-> c[2],
               UDPPortIndex |-> 0, returned |-> << >>, calls |-> 0]
  /\ ZFIdle
  /\ ran = RanIdle
  /\ ranlog = RanLogEmpty
  /\ cont = ContIdle
  /\ volume = VolIdle

Port_resetFreeUDPPort ==
  /\ util.pc = "ports"
  /\ util' = [util EXCEPT !.UDPPortIndex = 0, !.returned = << >>]
  /\ UNCHANGED util_others

Port_nextFreeUDPPort ==
  /\ util.pc = "ports"
  /\ util.calls < MaxPortCalls
  /\ LET port == nextFreeUDPPort(util.UDPPortIndex, util.udp_port_base,
                                 util.udp_port_range)
     IN util' = [util EXCEPT !.UDPPortIndex = port,
                             !.returned = Append(@, port),
                             !.calls = @ + 1]
  /\ UNCHANGED util_others

PortNext ==
  \/ Port_resetFreeUDPPort
  \/ Port_nextFreeUDPPort

SpecPorts == PortInit /\ [][PortNext]_vars

\* C24: with udp_port_range at least 3 and udp_port_base + udp_port_range - 1
\* at most 65535, every port nextFreeUDPPort returns lies in
\* [udp_port_base, udp_port_base + udp_port_range - 1].
C24_PortInRange ==
  util.pc = "ports" =>
    \A i \in 1 .. Len(util.returned) :
      /\ util.returned[i] >= util.udp_port_base
      /\ util.returned[i] <= util.udp_port_base + util.udp_port_range - 1

\* C25: after resetFreeUDPPort the calls return base, base+1, ...,
\* base+range-1 in that order, the next call returns base+3, and from then
\* on base, base+1 and base+2 are not returned until the next reset.
C25_FirstThreeNotReused ==
  util.pc = "ports" =>
    \A i \in 1 .. Len(util.returned) :
      /\ i <= util.udp_port_range =>
           util.returned[i] = util.udp_port_base + i - 1
      /\ i = util.udp_port_range + 1 =>
           util.returned[i] = util.udp_port_base + 3
      /\ i > util.udp_port_range =>
           util.returned[i] \notin
             util.udp_port_base .. util.udp_port_base + 2
(***************************************************************************)
(* string_update_with_size                                                 *)
(***************************************************************************)
MaxStringLen == 2

\* a pointer is the buffer it points to, which has at least one byte; the
\* null pointer is the empty one
NULL == << >>

\* the incoming s: NULL or a buffer of bytes, 0 being the NUL character
IncomingStrings ==
  {NULL} \cup UNION {[1 .. n -> {0, 97, 98}] : n \in 1 .. MaxStringLen}

\* strlen of a buffer that holds a NUL
strlen(str) ==
  LET nuls == {i \in 1 .. Len(str) : str[i] = 0}
  IN (CHOOSE i \in nuls : \A j \in nuls : i <= j) - 1

\* strncmp(str, s, len) for a NUL-terminated str and at least len bytes at
\* s: 0 if no byte differs before len bytes or a NUL have been compared
strncmp(str, s, len) ==
  LET stops == {i \in 1 .. len : i <= Len(str) /\ (str[i] = 0 \/ str[i] # s[i])}
      stop == CHOOSE i \in stops : \A j \in stops : i <= j
  IN IF stops = {} \/ str[stop] = s[stop] THEN 0 ELSE 1

\* the buffer of len + 1 bytes the code allocates and fills
string_copy_with_size(s, len) == SubSeq(s, 1, len) \o <<0>>

\* the *str and *flag that string_update_with_size(str, flag, s, len) leaves
string_update_with_size(str, s, len) ==
  IF str # NULL
    THEN IF s # NULL /\ len # 0
           THEN IF len # strlen(str) \/ strncmp(str, s, len) # 0
                  THEN [str |-> string_copy_with_size(s, len), flag |-> 1]
                  ELSE [str |-> str, flag |-> 0]
           ELSE [str |-> NULL, flag |-> 1]
    ELSE IF s # NULL /\ len # 0
           THEN [str |-> string_copy_with_size(s, len), flag |-> 1]
           ELSE [str |-> NULL, flag |-> 0]

\* one stored string, NULL before the first call; before, s and len record
\* the last call, and again says that it repeated the call before it
StringInit ==
  /\ util = [pc |-> "string", str |-> NULL, flag |-> 0, called |-> FALSE,
             before |-> NULL, s |-> NULL, len |-> 0, again |-> FALSE]
  /\ ZFIdle
  /\ ran = RanIdle
  /\ ranlog = RanLogEmpty
  /\ cont = ContIdle
  /\ volume = VolIdle

String_Call(s, len) ==
  /\ util.pc = "string"
  /\ LET after == string_update_with_size(util.str, s, len)
     IN util' = [pc |-> "string", str |-> after.str, flag |-> after.flag,
                 called |-> TRUE, before |-> util.str, s |-> s, len |-> len,
                 again |-> util.called /\ util.s = s /\ util.len = len]
  /\ UNCHANGED util_others

StringNext ==
  \E s \in IncomingStrings :
    \E len \in 0 .. (IF s = NULL THEN 1 ELSE Len(s)) : String_Call(s, len)

SpecString == StringInit /\ [][StringNext]_vars

\* two pointers hold the same C string: both are NULL, or neither is and
\* the bytes before the first NUL are the same
SameString(str1, str2) ==
  IF str1 = NULL \/ str2 = NULL
    THEN str1 = str2
    ELSE SubSeq(str1, 1, strlen(str1)) = SubSeq(str2, 1, strlen(str2))

\* C26: string_update_with_size stores NULL for a NULL or zero-length
\* incoming string and otherwise a NUL-terminated copy of its first len
\* bytes; it sets *flag and returns 1 exactly when the stored string
\* differs from the one before the call; so a repeated call returns 0 and
\* changes nothing, and the stored string is never a zero-length string.
C26_StringUpdate ==
  (util.pc = "string" /\ util.called) =>
    /\ IF util.s = NULL \/ util.len = 0
         THEN util.str = NULL
         ELSE /\ util.str # NULL
              /\ SameString(util.str, string_copy_with_size(util.s, util.len))
    /\ util.flag = 1 <=> ~SameString(util.str, util.before)
    /\ util.again => (util.flag = 0 /\ util.str = util.before)
    /\ util.str # NULL => strlen(util.str) > 0
(***************************************************************************)
(* debug_malloc_hex_cstring                                                *)
(***************************************************************************)
MaxRead == 3

\* the byte arrays passed in, nread being their length
Packets == UNION {[1 .. nread -> {0, 10, 255}] : nread \in 0 .. MaxRead}

\* the four characters snprintf(obfp, 4, "%02x ", byte) writes: two
\* lower-case hexadecimal digits, a space and the terminating NUL
snprintf_02x(byte) ==
  LET digit(d) == IF d < 10 THEN 48 + d ELSE 87 + d
  IN <<digit(byte \div 16), digit(byte % 16), 32, 0>>

HexInit ==
  /\ util = [pc |-> "hex", at |-> "idle", packet |-> << >>, nread |-> 0,
             response |-> << >>, obfp |-> 0, obfc |-> 0, outside |-> {}]
  /\ ZFIdle
  /\ ran = RanIdle
  /\ ranlog = RanLogEmpty
  /\ cont = ContIdle
  /\ volume = VolIdle

\* char *response = malloc(nread * 3 + 1), whose bytes hold whatever the
\* memory held before; response[i] is written response[i + 1] here, and
\* obfp is kept as the offset from response
Hex_Call(packet) ==
  /\ util.pc = "hex" /\ util.at \in {"idle", "returned"}
  /\ \E garbage \in {0, 170} :
       util' = [pc |-> "hex", at |-> "loop", packet |-> packet,
                nread |-> Len(packet),
                response |-> [i \in 1 .. Len(packet) * 3 + 1 |-> garbage],
                obfp |-> 0, obfc |-> 0, outside |-> {}]
  /\ UNCHANGED util_others

\* one turn of the for loop
Hex_Loop ==
  /\ util.pc = "hex" /\ util.at = "loop"
  /\ util.obfc < util.nread
  /\ LET chars == snprintf_02x(util.packet[util.obfc + 1])
         offsets == util.obfp .. util.obfp + 3
     IN util' = [util EXCEPT
          !.response = [i \in DOMAIN @ |->
                          IF i - 1 \in offsets THEN chars[i - util.obfp] ELSE @[i]],
          !.outside = @ \cup {o \in offsets : o + 1 \notin DOMAIN util.response},
          !.obfp = @ + 3,
          !.obfc = @ + 1]
  /\ UNCHANGED util_others

\* after the loop: obfp--; *obfp = 0; return response
Hex_Return ==
  /\ util.pc = "hex" /\ util.at = "loop"
  /\ ~(util.obfc < util.nread)
  /\ LET offset == util.obfp - 1
     IN util' = [util EXCEPT
          !.response = [i \in DOMAIN @ |-> IF i - 1 = offset THEN 0 ELSE @[i]],
          !.outside = @ \cup {o \in {offset} : o + 1 \notin DOMAIN util.response},
          !.obfp = offset,
          !.at = "returned"]
  /\ UNCHANGED util_others

HexNext ==
  \/ \E packet \in Packets : Hex_Call(packet)
  \/ Hex_Loop
  \/ Hex_Return

SpecHex == HexInit /\ [][HexNext]_vars

\* C30: debug_malloc_hex_cstring writes only inside the nread x 3 + 1
\* bytes it allocates and returns a NUL-terminated string, for every
\* nread >= 0; for nread = 0 the string is the empty string.
C30_HexInsideAndTerminated ==
  (util.pc = "hex" /\ util.at = "returned") =>
    /\ util.outside = {}
    /\ \E i \in DOMAIN util.response : util.response[i] = 0
    /\ util.nread = 0 => util.response[1] = 0
====
